---- MODULE Spec2Model ----
(***************************************************************************)
(* config-ninja: the AppConfig long-poll session (AppConfigBackend.poll),  *)
(* the per-object pipeline of BackendController (aget / awrite) and the    *)
(* watch-all command (monitor / poll_all) under the asyncio event loop.    *)
(*                                                                         *)
(* One task runs at a time: a task keeps the event loop from the moment it *)
(* is resumed until it reaches `await asyncio.sleep(...)` or ends.  The    *)
(* boto3 calls are ordinary blocking calls, so a fetch in flight keeps the *)
(* loop (variable running).                                                *)
(***************************************************************************)
EXTENDS Integers, Sequences, FiniteSets, TLC

(* ------------------------------ bounds -------------------------------- *)

\* total number of get_latest_configuration requests explored, all sessions
MaxFetches == 3

\* ids a name-resolution search returns at most
MaxIds == 3

(* --------------------------- program constants ------------------------ *)

MINIMUM_POLL_INTERVAL_SECONDS == 60

\* keys of settings.OBJECTS: one BackendController per key
Keys == {"a", "b"}

\* `interval` arguments of a direct poll(interval) call (mode "poll");
\* aget / awrite always call poll() with the default
CallerIntervals == {30, MINIMUM_POLL_INTERVAL_SECONDS}

\* NextPollIntervalInSeconds the service answers with: a value that differs
\* from every interval a caller passes
ServerIntervals == {120}

\* payloads of resp['Configuration'].read(); EmptyBytes is b''
EmptyBytes == [utf8 |-> ""]
Payloads == {[utf8 |-> s] : s \in {"", "v1", "v2", "malformed", "unrenderable"}}

\* exceptions get_latest_configuration may raise
TooEarlyError == [type |-> "BadRequestException", message |-> "Request too early"]
OtherBadRequest == [type |-> "BadRequestException", message |-> "Invalid token"]
OtherException == [type |-> "ClientError", message |-> "AccessDenied"]
FetchErrors == {TooEarlyError, OtherBadRequest, OtherException}
SessionError == [type |-> "ClientError", message |-> "ResourceNotFound"]
LoadsError == [type |-> "DecodeError", message |-> "loads"]
RenderError == [type |-> "RenderError", message |-> "render"]
NoError == [type |-> "none", message |-> ""]

NoToken == <<"none", 0>>
NoSleep == [num |-> 0, den |-> 1]
NoData == [fmt |-> "none", doc |-> ""]
NoFile == [fmt |-> "none", text |-> ""]
LoadsFailure == [fmt |-> "error", doc |-> ""]
RenderFailure == [fmt |-> "error", text |-> ""]

VARIABLES
    mode,       \* the CLI command: "monitor", "apply", "get"; or "poll", a direct consumer of poll(interval)
    pc,         \* per key: where the controller's task is
    running,    \* the task that holds the event loop, or "none"
    interval,   \* per key: the `interval` argument of poll
    token,      \* per key: the local `token` of poll
    issued,     \* per key: how many tokens the service has issued to the session
    opened,     \* per key: minimum intervals sent in start_configuration_session requests
    log,        \* per key: the fetch requests of the session and what each got
    emitted,    \* per key: the strings the poll stream has yielded
    data,       \* per key: `data` of aget / awrite, the decoded value in hand
    delivered,  \* per key: the arguments the sink (print / write_text) was called with
    file,       \* per key: content of dest.path
    lastSleep,  \* per key: the argument of the latest asyncio.sleep
    err,        \* per key: the exception that ended the task
    exc,        \* the first exception handed to the awaiter of the main coroutine
    sup,        \* asyncio.run(...) of the command: "running", "raised", "exited"
    result,     \* what the command handed to its caller
    handled,    \* per key: emissions whose consumer body has run to its end
    entry,      \* per key: the fields present in settings.OBJECTS[key]
    dirs,       \* keys whose dest.path.parent has been created
    cancelReq,  \* per key: the task has been asked to cancel (task.cancel())
    lookup,     \* a call of _get_id_from_name: its arguments and its outcome
    nfetch      \* fetch requests issued so far, all sessions

vars == <<mode, pc, running, interval, token, issued, opened, log, emitted, data,
          delivered, file, lastSleep, err, exc, sup, result, handled, entry, dirs,
          cancelReq, lookup, nfetch>>

NoExc == [from |-> "none", error |-> NoError]
NoResult == [kind |-> "none", error |-> NoError]

(* ------------------------- settings and formats ----------------------- *)

\* source.format and dest.format of the two objects in the settings file
SrcFormat(c) == IF c = "a" THEN "yaml" ELSE "raw"
DestFormat(c) == IF c = "a" THEN "json" ELSE "template"

\* config_ninja.backend.loads: decode the raw string by the source format
Loads(fmt, s) ==
    IF fmt # "raw" /\ s = "malformed" THEN LoadsFailure ELSE [fmt |-> fmt, doc |-> s]

\* dest.format.render(data) / dumps(fmt, data)
Render(fmt, d) ==
    IF d.doc = "unrenderable" THEN RenderFailure ELSE [fmt |-> fmt, text |-> d.doc]

\* bytes.decode()
BytesDecode(b) == b.utf8

(* ------------------------------- Init --------------------------------- *)

Active(m, k) == IF m = "monitor" THEN Keys ELSE {k}

\* the fields of a complete entry: object "a" is built from source.init,
\* object "b" by name through source.new
FullEntry(c) ==
    {"key", "source", "source.backend", "dest", "dest.path", "dest.format"}
        \cup (IF c = "a" THEN {"source.init", "source.init.kwargs"}
                         ELSE {"source.new", "source.new.kwargs"})

\* the entries explored: complete, one field missing, source and dest missing
Entries(c) ==
    {FullEntry(c)} \cup {FullEntry(c) \ {f} : f \in FullEntry(c)}
        \cup {FullEntry(c) \ {"source", "dest"}}

NoRaise == [type |-> "none", operation |-> "", name |-> ""]
NoId == ""
NoOutcome == [raised |-> NoRaise, id |-> NoId, warnings |-> <<>>]
NoLookup == [name |-> "", operation |-> "", ids |-> <<>>, done |-> FALSE,
             out |-> NoOutcome]

\* a command of the CLI before its first statement (a direct consumer of
\* poll(interval) has its backend already)
Init ==
    \E m \in {"monitor", "apply", "get", "poll"}, k \in Keys, i \in CallerIntervals,
       ea \in Entries("a"), eb \in Entries("b") :
        /\ mode = m
        /\ entry = [c \in Keys |-> IF c = "a" THEN ea ELSE eb]
        \* monitor takes its keys from settings.OBJECTS; other objects of the
        \* file play no part in get / apply
        /\ m = "monitor" => "key" \in ea /\ "key" \in eb
        /\ m = "poll" => ea = FullEntry("a") /\ eb = FullEntry("b")
        /\ \A c \in Keys \ Active(m, k) : entry[c] = FullEntry(c)
        /\ dirs = {}
        /\ cancelReq = [c \in Keys |-> FALSE]
        /\ lookup = NoLookup
        /\ pc = [c \in Keys |-> IF c \notin Active(m, k) THEN "absent"
                                 ELSE IF m = "poll" THEN "init" ELSE "unbuilt"]
        /\ interval = [c \in Keys |->
                          IF m = "poll" THEN i ELSE MINIMUM_POLL_INTERVAL_SECONDS]
        /\ running = "none"
        /\ token = [c \in Keys |-> NoToken]
        /\ issued = [c \in Keys |-> 0]
        /\ opened = [c \in Keys |-> <<>>]
        /\ log = [c \in Keys |-> <<>>]
        /\ emitted = [c \in Keys |-> <<>>]
        /\ data = [c \in Keys |-> NoData]
        /\ delivered = [c \in Keys |-> <<>>]
        /\ file = [c \in Keys |-> NoFile]
        /\ lastSleep = [c \in Keys |-> NoSleep]
        /\ err = [c \in Keys |-> NoError]
        /\ exc = NoExc
        /\ sup = IF m = "poll" THEN "running" ELSE "setup"
        /\ result = NoResult
        /\ handled = [c \in Keys |-> 0]
        /\ nfetch = 0

(* ------------------------------ helpers ------------------------------- *)

Last(s) == s[Len(s)]

\* the latest fetch of the session with its outcome filled in
Answered(c, outcome) == [log EXCEPT ![c] = [@ EXCEPT ![Len(@)] = outcome]]

\* the task of c ends with exception e; in "monitor" the gather future keeps
\* the first exception, otherwise the task is the main coroutine itself
Fail(c, e) ==
    /\ pc' = [pc EXCEPT ![c] = "failed"]
    /\ err' = [err EXCEPT ![c] = e]
    /\ running' = "none"
    /\ exc' = IF exc = NoExc THEN [from |-> c, error |-> e] ELSE exc
    /\ sup' = IF mode = "monitor" THEN sup ELSE "raised"

\* await asyncio.sleep(d): the task gives up the loop
Sleep(c, at, d) ==
    /\ pc' = [pc EXCEPT ![c] = at]
    /\ lastSleep' = [lastSleep EXCEPT ![c] = d]
    /\ running' = "none"

(* ---------------- BackendController.__init__, get / apply / monitor --- *)

\* the subscripts of _init_backend, in the order the code evaluates them
InitBackendLookups(e) ==
    <<"key", "source", "source.backend">>
        \o (IF "source.new" \in e THEN <<"source.new.kwargs">>
                                  ELSE <<"source.init", "source.init.kwargs">>)

\* the subscripts of _get_dest
GetDestLookups == <<"key", "dest", "dest.path", "dest.format">>

\* the first subscript that raises KeyError, or "none"
FirstAbsent(seq, e) ==
    LET absent == {i \in 1..Len(seq) : seq[i] \notin e}
    IN IF absent = {} THEN "none"
       ELSE seq[CHOOSE i \in absent : \A j \in absent : i <= j]

\* exc.args[0] of the KeyError: the dictionary key that was not found
KeyName(c, path) ==
    CASE path = "key" -> c
      [] path = "source.backend" -> "backend"
      [] path = "source.init" -> "init"
      [] path \in {"source.init.kwargs", "source.new.kwargs"} -> "kwargs"
      [] path = "dest.path" -> "path"
      [] path = "dest.format" -> "format"
      [] OTHER -> path

\* a handler that lets the KeyError through
KeyErrorOutcomeUnhandled(k) ==
    [kind |-> "error", error |-> [type |-> "KeyError", message |-> k]]

\* handle_key_errors: print "Missing key: <k>" and raise typer.Exit(1)
KeyErrorOutcome(k) ==
    [kind |-> "exit1", error |-> [type |-> "KeyError", message |-> k]]

\* ValueError of backend_class.new: no id found for a name
NotFoundError == [type |-> "ValueError", message |-> "no results found"]

\* the controllers are constructed in the order of settings.OBJECTS
Before(c) == {d \in Keys : d = "a" /\ c = "b"}

\* BackendController(settings, key): _init_backend, then _get_dest
Construct(c) ==
    /\ sup = "setup"
    /\ pc[c] = "unbuilt"
    /\ \A d \in Before(c) : pc[d] \notin {"unbuilt"}
    /\ LET m1 == FirstAbsent(InitBackendLookups(entry[c]), entry[c])
           m2 == FirstAbsent(GetDestLookups, entry[c])
           stop(r) == result' = r /\ sup' = "exited" /\ UNCHANGED pc
       IN IF m1 # "none"
          THEN stop(KeyErrorOutcome(KeyName(c, m1)))
          ELSE \/ /\ "source.new" \in entry[c]
                  /\ stop([kind |-> "error", error |-> NotFoundError])
               \/ IF m2 # "none"
                  THEN stop(KeyErrorOutcome(KeyName(c, m2)))
                  ELSE /\ pc' = [pc EXCEPT ![c] = "built"]
                       /\ UNCHANGED <<result, sup>>
    /\ UNCHANGED <<mode, entry, dirs, cancelReq, lookup, running, interval, token, issued,
                   opened, log, emitted, data, delivered, file, lastSleep, err, exc,
                   handled, nfetch>>

\* ctrl.dest.path.parent.mkdir(parents=True, exist_ok=True), in apply and monitor
Mkdir(c) ==
    /\ sup = "setup"
    /\ mode \in {"apply", "monitor"}
    /\ \A d \in Keys : pc[d] \in {"built", "absent"}
    /\ c \notin dirs
    /\ pc[c] = "built"
    /\ \A d \in Before(c) : d \in dirs
    /\ dirs' = dirs \cup {c}
    /\ UNCHANGED <<mode, entry, cancelReq, lookup, pc, running, interval, token, issued,
                   opened, log, emitted, data, delivered, file, lastSleep, err, exc,
                   sup, result, handled, nfetch>>

\* a command that starts watching as soon as one controller exists
SetupCompleteEager == \E d \in Keys : pc[d] = "built"

\* asyncio.run(...) is the last statement of the command: every controller
\* has been constructed and, in apply and monitor, every parent directory made
SetupComplete ==
    /\ \A d \in Keys : pc[d] \in {"built", "absent"}
    /\ mode \in {"apply", "monitor"} => \A d \in Keys : pc[d] = "built" => d \in dirs

\* asyncio.run(...) starts the loop with a task per controller
RunStart ==
    /\ sup = "setup"
    /\ SetupComplete
    /\ pc' = [d \in Keys |-> IF pc[d] = "built" THEN "init" ELSE pc[d]]
    /\ sup' = "running"
    /\ UNCHANGED <<mode, entry, dirs, cancelReq, lookup, running, interval, token, issued,
                   opened, log, emitted, data, delivered, file, lastSleep, err, exc,
                   result, handled, nfetch>>

(* ------------------------ AppConfigBackend.poll ----------------------- *)

\* a session-open request that never asks for less than the floor
SessionMinIntervalClamped(c) ==
    IF interval[c] < MINIMUM_POLL_INTERVAL_SECONDS
    THEN MINIMUM_POLL_INTERVAL_SECONDS ELSE interval[c]

\* RequiredMinimumPollIntervalInSeconds of the session-open request
SessionMinInterval(c) == interval[c]

\* a handler that retries on every BadRequestException, whatever its message
IsTooEarlyAnyBadRequest(e) == e.type = "BadRequestException"

\* a handler that re-raises every exception
IsTooEarlyNever(e) == FALSE

\* `exc.response['Error']['Message'] != 'Request too early'` under
\* `except BadRequestException`
IsTooEarly(e) == e.type = "BadRequestException" /\ e.message = "Request too early"

\* a session that falls back to its initial token on a too-early answer
TokenAfterTooEarlyReset(c) == <<c, 0>>

\* the token after a too-early answer: `continue` assigns nothing
TokenAfterTooEarly(c) == token[c]

\* asyncio.sleep(interval / 2), as the fraction num/den
BackoffSleep(c) == [num |-> interval[c], den |-> 2]

\* a session that forgets to adopt the token of the response
TokenAfterSuccessStale(c, r) == token[c]

\* token = resp['NextPollConfigurationToken']
TokenAfterSuccess(c, r) == r.next

\* sessions that keep their token in one place they all share
TokensAfterSuccessShared(c, r) == [d \in Keys |-> TokenAfterSuccess(c, r)]

\* `token` is a local of the generator: every call of poll has its own
TokensAfterSuccess(c, r) == [token EXCEPT ![c] = TokenAfterSuccess(c, r)]

\* `if content := resp['Configuration'].read()`
ShouldYield(c, body) == body # EmptyBytes

\* a session that sleeps for its own interval argument after a response
IntervalSleepOfArgument(c, r) == [num |-> interval[c], den |-> 1]

\* asyncio.sleep(resp['NextPollIntervalInSeconds'])
IntervalSleep(c, r) == [num |-> r.nextInt, den |-> 1]

\* a producer that goes on to the next fetch without waiting for its consumer
AfterYieldEager(c) == "poll"

\* `yield` hands the element to the consumer and suspends the generator
\* until the consumer asks for the next one
AfterYield(c) == "yielded"

\* a task that goes on after a cancellation request
MayResumeAlways(c) == TRUE

\* a task whose cancellation was requested is resumed with CancelledError
\* thrown into its await, not with the result of the await
MayResume(c) == ~cancelReq[c]

\* where a task can be suspended: before its first step and in the two sleeps
Suspended(c) == pc[c] \in {"init", "sleep", "backoff"}

CancelledError == [type |-> "CancelledError", message |-> ""]

\* the host calls task.cancel() on the continuous operation of c; on the
\* single thread of the loop this happens while the task is suspended
HostCancel(c) ==
    /\ Suspended(c)
    /\ running = "none"
    /\ sup = "running"
    /\ ~cancelReq[c]
    /\ cancelReq' = [cancelReq EXCEPT ![c] = TRUE]
    /\ UNCHANGED <<mode, entry, dirs, lookup, pc, running, interval, token, issued, opened,
                   log, emitted, data, delivered, file, lastSleep, err, exc, sup,
                   result, handled, nfetch>>

\* CancelledError is raised at the await the task is suspended in; neither
\* poll nor awrite / aget catches it, so it ends the generator and the task
Cancelled(c) ==
    /\ Suspended(c)
    /\ cancelReq[c]
    /\ running = "none"
    /\ sup \in {"running", "raised"}
    /\ pc' = [pc EXCEPT ![c] = "cancelled"]
    /\ err' = [err EXCEPT ![c] = CancelledError]
    /\ exc' = IF exc = NoExc THEN [from |-> c, error |-> CancelledError] ELSE exc
    /\ sup' = IF mode = "monitor" THEN sup ELSE "raised"
    /\ UNCHANGED <<mode, entry, dirs, cancelReq, lookup, running, interval, token, issued,
                   opened, log, emitted, data, delivered, file, lastSleep, result,
                   handled, nfetch>>

\* first step of the task: start_configuration_session
StartSession(c) ==
    /\ pc[c] = "init"
    /\ running = "none"
    /\ MayResume(c)
    /\ sup \in {"running", "raised"}
    /\ nfetch < MaxFetches
    /\ opened' = [opened EXCEPT ![c] = Append(@, SessionMinInterval(c))]
    /\ \/ /\ token' = [token EXCEPT ![c] = <<c, 0>>]
          /\ issued' = [issued EXCEPT ![c] = 1]
          /\ pc' = [pc EXCEPT ![c] = "poll"]
          /\ running' = c
          /\ UNCHANGED <<err, exc, sup>>
       \/ /\ Fail(c, SessionError)
          /\ UNCHANGED <<token, issued>>
    /\ UNCHANGED <<mode, entry, dirs, cancelReq, lookup, interval, log, emitted, data, delivered, file, lastSleep,
                   result, handled, nfetch>>

\* a loop that opens a session at the top of every iteration
SessionsAtLoopTopReopened(c) == Append(opened[c], SessionMinInterval(c))

\* start_configuration_session stands above `while True`: an iteration of
\* the loop opens nothing
SessionsAtLoopTop(c) == opened[c]

\* get_latest_configuration(ConfigurationToken=token) is called
FetchRequest(c) ==
    /\ pc[c] = "poll"
    /\ running = c
    /\ log' = [log EXCEPT ![c] = Append(@, [tok |-> token[c], kind |-> "inflight",
                    error |-> NoError, next |-> NoToken, content |-> EmptyBytes,
                    nextInt |-> 0])]
    /\ pc' = [pc EXCEPT ![c] = "fetching"]
    /\ nfetch' = nfetch + 1
    /\ opened' = [opened EXCEPT ![c] = SessionsAtLoopTop(c)]
    /\ UNCHANGED <<mode, entry, dirs, cancelReq, lookup, running, interval, token, issued, emitted, data,
                   delivered, file, lastSleep, err, exc, sup, result, handled>>

\* the call returns a response: lines 262-268 up to the yield or the sleep
FetchOK(c) ==
    /\ pc[c] = "fetching"
    /\ running = c
    /\ \E body \in Payloads, n \in ServerIntervals :
         LET r == [tok |-> Last(log[c]).tok, kind |-> "ok", error |-> NoError,
                   next |-> <<c, issued[c]>>, content |-> body, nextInt |-> n]
         IN /\ log' = Answered(c, r)
            /\ issued' = [issued EXCEPT ![c] = @ + 1]
            /\ token' = TokensAfterSuccess(c, r)
            /\ IF ShouldYield(c, body)
               THEN /\ emitted' = [emitted EXCEPT ![c] = Append(@, BytesDecode(body))]
                    /\ pc' = [pc EXCEPT ![c] = AfterYield(c)]
                    /\ UNCHANGED <<lastSleep, running>>
               ELSE /\ Sleep(c, "sleep", IntervalSleep(c, r))
                    /\ UNCHANGED emitted
    /\ UNCHANGED <<mode, entry, dirs, cancelReq, lookup, interval, opened, data, delivered, file, err, exc, sup,
                   result, handled, nfetch>>

\* the call raises: lines 256-260
FetchError(c) ==
    /\ pc[c] = "fetching"
    /\ running = c
    /\ \E e \in FetchErrors :
         /\ log' = Answered(c, [Last(log[c]) EXCEPT !.kind = "error", !.error = e])
         /\ IF IsTooEarly(e)
            THEN /\ token' = [token EXCEPT ![c] = TokenAfterTooEarly(c)]
                 /\ Sleep(c, "backoff", BackoffSleep(c))
                 /\ UNCHANGED <<err, exc, sup>>
            ELSE /\ Fail(c, e)
                 /\ UNCHANGED <<token, lastSleep>>
    /\ UNCHANGED <<mode, entry, dirs, cancelReq, lookup, interval, issued, opened, emitted, data, delivered, file,
                   result, handled, nfetch>>

\* the sleep is over and the loop is free: back to the top of `while True`
Wake(c) ==
    /\ pc[c] \in {"sleep", "backoff"}
    /\ running = "none"
    /\ MayResume(c)
    /\ sup # "exited"
    /\ nfetch < MaxFetches
    /\ pc' = [pc EXCEPT ![c] = "poll"]
    /\ running' = c
    /\ UNCHANGED <<mode, entry, dirs, cancelReq, lookup, interval, token, issued, opened, log, emitted, data,
                   delivered, file, lastSleep, err, exc, sup, result, handled, nfetch>>

(* ------------------- BackendController.aget / awrite ------------------ *)

\* the sink of the command: `print` for get, dest.path.write_text otherwise
Sink == IF mode = "get" THEN "print" ELSE "write_text"

\* a sink that is not called again for a rendering equal to the previous one
DeliveriesCoalesced(c, out) ==
    IF delivered[c] # <<>> /\ Last(delivered[c]) = out
    THEN delivered[c] ELSE Append(delivered[c], out)

\* action(rendered) is called once per run of _do
Deliveries(c, out) == Append(delivered[c], out)

\* a sink that writes a file only if there is none yet
FileAfterKeepFirst(c, out) ==
    IF Sink = "write_text" /\ file[c] = NoFile THEN out ELSE file[c]

\* Path.write_text replaces the content of the file
FileAfter(c, out) == IF Sink = "write_text" THEN out ELSE file[c]

\* the consumer body ends and `async for` asks for the next element: the
\* generator goes on from the yield to the sleep of line 268
NextElement(c) ==
    /\ handled' = [handled EXCEPT ![c] = @ + 1]
    /\ Sleep(c, "sleep", IntervalSleep(c, Last(log[c])))

\* a sink that opens and truncates the file before the rendering is made
FileAfterFailureTruncated(c) ==
    IF Sink = "write_text" THEN [fmt |-> DestFormat(c), text |-> ""] ELSE file[c]

\* the rendering is the argument of action(...): it is evaluated, and raises,
\* before the sink is called, and loads runs before _do is entered
FileAfterFailure(c) == file[c]

\* a consumer that drops the update that failed and asks for the next one
PipelineErrorSkipped(c, e) ==
    /\ NextElement(c)
    /\ UNCHANGED <<err, exc, sup>>

\* loads / render raises inside the body of `async for`: nothing catches it,
\* the exception leaves awrite / aget and ends the task
PipelineError(c, e) ==
    /\ Fail(c, e)
    /\ handled' = [handled EXCEPT ![c] = @ + 1]
    /\ UNCHANGED lastSleep

\* data = loads(self.src_format, content)
ControllerLoads(c) ==
    /\ pc[c] = "yielded"
    /\ running = c
    /\ mode # "poll"
    /\ LET d == Loads(SrcFormat(c), Last(emitted[c]))
       IN IF d = LoadsFailure
          THEN /\ PipelineError(c, LoadsError)
               /\ file' = [file EXCEPT ![c] = FileAfterFailure(c)]
               /\ UNCHANGED data
          ELSE /\ data' = [data EXCEPT ![c] = d]
               /\ pc' = [pc EXCEPT ![c] = "do"]
               /\ UNCHANGED <<running, err, exc, sup, handled, lastSleep, file>>
    /\ UNCHANGED <<mode, entry, dirs, cancelReq, lookup, interval, token, issued, opened, log, emitted, delivered,
                   result, nfetch>>

\* self._do(action, data): render, then call the sink with the rendering
ControllerDo(c) ==
    /\ pc[c] = "do"
    /\ running = c
    /\ LET out == Render(DestFormat(c), data[c])
       IN IF out = RenderFailure
          THEN /\ PipelineError(c, RenderError)
               /\ file' = [file EXCEPT ![c] = FileAfterFailure(c)]
               /\ UNCHANGED delivered
          ELSE /\ delivered' = [delivered EXCEPT ![c] = Deliveries(c, out)]
               /\ file' = [file EXCEPT ![c] = FileAfter(c, out)]
               /\ NextElement(c)
               /\ UNCHANGED <<err, exc, sup>>
    /\ UNCHANGED <<mode, entry, dirs, cancelReq, lookup, interval, token, issued, opened, log, emitted, data, result,
                   nfetch>>

\* a direct consumer of poll(interval) takes the element and asks for the next
Consume(c) ==
    /\ pc[c] = "yielded"
    /\ running = c
    /\ mode = "poll"
    /\ NextElement(c)
    /\ UNCHANGED <<mode, entry, dirs, cancelReq, lookup, interval, token, issued, opened, log, emitted, data,
                   delivered, file, err, exc, sup, result, nfetch>>

(* --------------------- monitor / poll_all, asyncio.run ---------------- *)

\* asyncio.gather(*aws) without return_exceptions: the first exception of a
\* member settles the gather
GatherSettled == exc # NoExc

\* a gather that hands the exceptions back as results (return_exceptions=True)
GatherOutcomeCollected == "returned"

\* ... and is raised into poll_all
GatherOutcome == "raised"

\* a runner that leaves the remaining tasks as they are
CancelNone == pc

\* asyncio.run cancels every task that is left when the main coroutine is
\* done; a task is cancelled where it is suspended, at a sleep or before
\* its first step
CancelAll ==
    [c \in Keys |-> IF pc[c] \in {"init", "sleep", "backoff"} THEN "cancelled" ELSE pc[c]]

\* await asyncio.gather(...) in poll_all
PollAll ==
    /\ mode = "monitor"
    /\ sup = "running"
    /\ running = "none"
    /\ GatherSettled
    /\ sup' = GatherOutcome
    /\ UNCHANGED <<mode, entry, dirs, cancelReq, lookup, pc, running, interval, token, issued, opened, log, emitted,
                   data, delivered, file, lastSleep, err, exc, result, handled, nfetch>>

\* asyncio.run(...): the main coroutine is done; clean up and hand its
\* outcome to the caller of the command
RunExit ==
    /\ sup \in {"raised", "returned"}
    /\ running = "none"
    /\ pc' = CancelAll
    /\ result' = IF sup = "raised" THEN [kind |-> "error", error |-> exc.error]
                                   ELSE [kind |-> "success", error |-> NoError]
    /\ sup' = "exited"
    /\ UNCHANGED <<mode, entry, dirs, cancelReq, lookup, running, interval, token, issued, opened, log, emitted,
                   data, delivered, file, lastSleep, err, exc, handled, nfetch>>

(* ---------------- AppConfigBackend._get_id_from_name ------------------ *)

\* the displayed names searched for
Names == {"app-name", "conf-name"}

\* OperationName
OperationNames == {"list_applications", "list_configuration_profiles", "list_environments"}

\* the ids the service knows
Ids == {"id-1", "id-2", "id-3", "id-4"}

\* what page_iterator.search(...) yields: up to MaxIds ids without repetition,
\* in the order the server returns them
IdLists ==
    UNION {{q \in [1..n -> Ids] : \A i, j \in 1..n : i # j => q[i] # q[j]} : n \in 0..MaxIds}

\* a resolution that takes the last id and lists the ones before it
GetIdFromNameLast(name, operation_name, ids) ==
    IF ids = <<>>
    THEN [raised |-> [type |-> "ValueError", operation |-> operation_name, name |-> name],
          id |-> NoId, warnings |-> <<>>]
    ELSE [raised |-> NoRaise, id |-> ids[Len(ids)],
          warnings |-> IF Len(ids) > 1
                       THEN <<[category |-> "RuntimeWarning", operation |-> operation_name,
                               count |-> Len(ids), name |-> name, used |-> ids[Len(ids)],
                               ignored |-> SubSeq(ids, 1, Len(ids) - 1)]>>
                       ELSE <<>>]

\* _get_id_from_name: ValueError on no result, ids[0] otherwise, and one
\* RuntimeWarning naming ids[1:] when there are several
GetIdFromName(name, operation_name, ids) ==
    IF ids = <<>>
    THEN [raised |-> [type |-> "ValueError", operation |-> operation_name, name |-> name],
          id |-> NoId, warnings |-> <<>>]
    ELSE [raised |-> NoRaise, id |-> ids[1],
          warnings |-> IF Len(ids) > 1
                       THEN <<[category |-> "RuntimeWarning", operation |-> operation_name,
                               count |-> Len(ids), name |-> name, used |-> ids[1],
                               ignored |-> SubSeq(ids, 2, Len(ids))]>>
                       ELSE <<>>]

\* a call of _get_id_from_name about to be made
InitResolve ==
    \E n \in Names, o \in OperationNames, q \in IdLists :
        /\ mode = "resolve"
        /\ lookup = [name |-> n, operation |-> o, ids |-> q, done |-> FALSE,
                     out |-> NoOutcome]
        /\ entry = [c \in Keys |-> FullEntry(c)]
        /\ dirs = {}
        /\ cancelReq = [c \in Keys |-> FALSE]
        /\ pc = [c \in Keys |-> "absent"]
        /\ running = "none"
        /\ interval = [c \in Keys |-> MINIMUM_POLL_INTERVAL_SECONDS]
        /\ token = [c \in Keys |-> NoToken]
        /\ issued = [c \in Keys |-> 0]
        /\ opened = [c \in Keys |-> <<>>]
        /\ log = [c \in Keys |-> <<>>]
        /\ emitted = [c \in Keys |-> <<>>]
        /\ data = [c \in Keys |-> NoData]
        /\ delivered = [c \in Keys |-> <<>>]
        /\ file = [c \in Keys |-> NoFile]
        /\ lastSleep = [c \in Keys |-> NoSleep]
        /\ err = [c \in Keys |-> NoError]
        /\ exc = NoExc
        /\ sup = "setup"
        /\ result = NoResult
        /\ handled = [c \in Keys |-> 0]
        /\ nfetch = 0

\* the call is made
Resolve ==
    /\ mode = "resolve"
    /\ ~lookup.done
    /\ lookup' = [lookup EXCEPT !.done = TRUE,
                                !.out = GetIdFromName(lookup.name, lookup.operation, lookup.ids)]
    /\ UNCHANGED <<mode, entry, dirs, cancelReq, pc, running, interval, token, issued,
                   opened, log, emitted, data, delivered, file, lastSleep, err, exc,
                   sup, result, handled, nfetch>>

NextResolve == Resolve

SpecResolve == InitResolve /\ [][NextResolve]_vars

(* ------------------------------ Next, Spec ---------------------------- *)

Next ==
    \/ \E c \in Keys : Construct(c)
    \/ \E c \in Keys : Mkdir(c)
    \/ RunStart
    \/ \E c \in Keys : HostCancel(c)
    \/ \E c \in Keys : Cancelled(c)
    \/ \E c \in Keys : StartSession(c)
    \/ \E c \in Keys : FetchRequest(c)
    \/ \E c \in Keys : FetchOK(c)
    \/ \E c \in Keys : FetchError(c)
    \/ \E c \in Keys : Wake(c)
    \/ \E c \in Keys : ControllerLoads(c)
    \/ \E c \in Keys : ControllerDo(c)
    \/ \E c \in Keys : Consume(c)
    \/ PollAll
    \/ RunExit

Spec == Init /\ [][Next]_vars

\* the event loop runs whatever is ready: a step that can be taken is taken,
\* and the awaiter of a settled gather is resumed
FairSpec == Spec /\ WF_vars(Next) /\ WF_vars(PollAll) /\ WF_vars(RunExit)

TypeOK ==
    /\ mode \in {"monitor", "apply", "get", "poll"}
    /\ pc \in [Keys -> {"absent", "unbuilt", "built", "init", "poll", "fetching", "yielded", "do",
                        "sleep", "backoff", "failed", "cancelled"}]
    /\ running \in Keys \cup {"none"}
    /\ sup \in {"setup", "running", "raised", "returned", "exited"}
    /\ nfetch \in 0..MaxFetches
    /\ \A c \in Keys : entry[c] \in Entries(c)
    /\ dirs \subseteq Keys
    /\ cancelReq \in [Keys -> BOOLEAN]
    /\ \A c \in Keys : handled[c] <= Len(emitted[c])

(* ======================= properties of the session ==================== *)

\* asyncio.run has been entered: the tasks of the controllers exist
Started == \E c \in Keys : pc[c] \notin {"absent", "unbuilt", "built"}

TooEarlyAt(c, i) == log[c][i].kind = "error" /\ log[c][i].error = TooEarlyError

\* the interval in effect: NextPollIntervalInSeconds of the latest successful
\* response of the session, or the argument of poll when there is none yet
EffectiveInterval(c) ==
    LET oks == {i \in 1..Len(log[c]) : log[c][i].kind = "ok"}
    IN IF oks = {} THEN interval[c]
       ELSE log[c][CHOOSE i \in oks : \A j \in oks : j <= i].nextInt

\* C1: a fetch that failed with "too early" does not advance the token: the
\* next fetch request of the session carries the token of the failed request,
\* also through several too-early answers in a row.
C1_TooEarlyKeepsToken ==
    \A c \in Keys : \A i \in 1..Len(log[c]) :
        (TooEarlyAt(c, i) /\ i < Len(log[c])) => log[c][i + 1].tok = log[c][i].tok

\* a successful response, then a too-early answer, and the retry has been
\* sent with the token of the request that failed
C1_Witness ==
    \E c \in Keys :
        /\ Len(log[c]) = 3
        /\ log[c][1].kind = "ok" /\ TooEarlyAt(c, 2)
        /\ log[c][3].tok = log[c][2].tok
        /\ log[c][3].tok = log[c][1].next

\* two too-early answers in a row, and the second retry has been sent
C1_WitnessRepeated ==
    \E c \in Keys :
        /\ Len(log[c]) = 3
        /\ TooEarlyAt(c, 1) /\ TooEarlyAt(c, 2)
        /\ log[c][3].tok = log[c][1].tok

\* C2: the sleep between a too-early error and the retry is exactly half the
\* interval in effect at the time of the error (the next-interval of the latest
\* successful response, or the poll argument before any success).
C2_BackoffIsHalfEffectiveInterval ==
    \A c \in Keys :
        pc[c] = "backoff" => lastSleep[c].num * 2 = EffectiveInterval(c) * lastSleep[c].den

\* C3: after every successful response the next request carries exactly the
\* next-token of that response, and no token older than the latest successful
\* response (the initial token included) is sent again.
C3_NextRequestUsesResponseToken ==
    \A c \in Keys : \A i \in 1..Len(log[c]) :
        log[c][i].kind = "ok" =>
            /\ i < Len(log[c]) => log[c][i + 1].tok = log[c][i].next
            /\ \A j \in (i + 1)..Len(log[c]) :
                  /\ log[c][j].tok # <<c, 0>>
                  /\ \A k \in 1..(i - 1) :
                        log[c][k].kind = "ok" => log[c][j].tok # log[c][k].next

\* a skip, then an emission, then the third request has been sent
C3_Witness ==
    \E c \in Keys :
        /\ Len(log[c]) = 3
        /\ log[c][1].kind = "ok" /\ log[c][1].content = EmptyBytes
        /\ log[c][2].kind = "ok" /\ log[c][2].content # EmptyBytes
        /\ log[c][3].tok = log[c][2].next

\* C4: for every sequence of server responses the stream never holds two
\* consecutive elements that are the same raw string.
C4_NoConsecutiveDuplicates ==
    \A c \in Keys : \A i \in 1..Len(emitted[c]) :
        i < Len(emitted[c]) => emitted[c][i] # emitted[c][i + 1]

\* C5: under aget / awrite the deliveries are the emissions rendered one by
\* one, in order: every emission whose decode and render have run to the end
\* has exactly one delivery and nothing else is delivered.  The one emission
\* that may be without its delivery is the latest one, while its pipeline is
\* running or when its decode / render raised and ended the controller.
C5_OneDeliveryPerEmission ==
    mode # "poll" =>
        \A c \in Keys :
            LET open == pc[c] \in {"yielded", "do"} \/ err[c] \in {LoadsError, RenderError}
            IN /\ Len(delivered[c]) = Len(emitted[c]) - (IF open THEN 1 ELSE 0)
               /\ \A i \in 1..Len(delivered[c]) :
                     delivered[c][i] = Render(DestFormat(c), Loads(SrcFormat(c), emitted[c][i]))

\* responses [changed v1, unchanged, changed v2]: two deliveries, v1 then v2
C5_Witness ==
    \E c \in Keys :
        /\ mode # "poll"
        /\ Len(log[c]) = 3
        /\ log[c][1].content.utf8 = "v1" /\ log[c][2].content = EmptyBytes
        /\ log[c][3].content.utf8 = "v2"
        /\ pc[c] = "sleep"
        /\ Len(delivered[c]) = 2
        /\ delivered[c][1].text = "v1" /\ delivered[c][2].text = "v2"

\* C6: no fetch of a session is issued while the pipeline of an earlier
\* emission of that session is still to run or running.
C6_PipelineBeforeNextFetch ==
    \A c \in Keys :
        pc[c] \in {"poll", "fetching"} => handled[c] = Len(emitted[c])

\* a fetch in flight after a delivery
C6_Witness ==
    \E c \in Keys :
        /\ pc[c] = "fetching"
        /\ Len(delivered[c]) = 1
        /\ handled[c] = 1
        /\ Len(log[c]) = 2

FatalAt(c, i) == log[c][i].kind = "error" /\ log[c][i].error # TooEarlyError

\* C7: a fetch error other than "too early" ends the session: the error
\* reaches the consumer (the task of the controller ends with it), and the
\* session sends no further fetch request and emits no further element.
C7_OtherErrorEndsSession ==
    /\ [](\A c \in Keys : \A i \in 1..Len(log[c]) :
            FatalAt(c, i) =>
                /\ i = Len(log[c])
                /\ pc[c] = "failed"
                /\ err[c] = log[c][i].error)
    /\ [][\A c \in Keys :
            pc[c] = "failed" =>
                /\ pc'[c] = "failed"
                /\ err'[c] = err[c]
                /\ log'[c] = log[c]
                /\ emitted'[c] = emitted[c]
                /\ delivered'[c] = delivered[c]]_vars

\* a BadRequestException with another message ended a session that had
\* emitted before
C7_Witness ==
    \E c \in Keys :
        /\ pc[c] = "failed"
        /\ err[c] = OtherBadRequest
        /\ Len(emitted[c]) >= 1
        /\ FatalAt(c, Len(log[c]))

\* C8: a too-early error is never surfaced: the step that receives it leaves
\* the session suspended in its backoff sleep, ends no task and settles
\* nothing at the supervisor; no task, gather or command ever ends with it.
C8_TooEarlyNeverSurfaces ==
    /\ [](/\ \A c \in Keys : err[c] # TooEarlyError
          /\ exc.error # TooEarlyError
          /\ result.error # TooEarlyError)
    /\ [][\A c \in Keys :
            (log'[c] # log[c] /\ TooEarlyAt(c, Len(log[c]))')
                => /\ pc'[c] = "backoff"
                   /\ UNCHANGED <<err, exc, sup, result, emitted>>]_vars

\* two too-early answers in a row, then a successful response that was
\* emitted and delivered, with the command still running
C8_Witness ==
    \E c \in Keys :
        /\ Len(log[c]) = 3
        /\ TooEarlyAt(c, 1) /\ TooEarlyAt(c, 2)
        /\ log[c][3].kind = "ok"
        /\ Len(emitted[c]) = 1
        /\ pc[c] = "sleep"
        /\ sup = "running"

\* C9: under monitor, once a controller's awrite has ended with a fatal
\* error the command ends with the first such error: it never ends in
\* success and does not go on waiting for the other controllers.
C9_SupervisorSurfacesFatalError ==
    /\ [](result.kind # "success")
    /\ []((mode = "monitor" /\ sup = "exited" /\ Started) =>
            /\ exc # NoExc
            /\ pc[exc.from] \in {"failed", "cancelled"}
            /\ result = [kind |-> "error", error |-> err[exc.from]])
    /\ ((mode = "monitor" /\ \E c \in Keys : pc[c] = "failed") ~> sup = "exited")

\* one controller failed on its second fetch while the other, which had
\* delivered an update, was asleep; the command ended with that error
C9_Witness ==
    \E c \in Keys, d \in Keys :
        /\ mode = "monitor"
        /\ sup = "exited"
        /\ c # d
        /\ Len(log[c]) = 2 /\ FatalAt(c, 2)
        /\ Len(delivered[d]) = 1
        /\ pc[d] = "cancelled"
        /\ result = [kind |-> "error", error |-> err[c]]

\* C10 as stated: when poll_all hands the first fatal error to its caller,
\* every controller has finished.
C10_PollAllJoinsAll ==
    (mode = "monitor" /\ sup = "raised") =>
        \A c \in Keys : pc[c] \in {"failed", "cancelled"}

\* C10 as amended: poll_all raises while its siblings are still suspended;
\* asyncio.run then cancels them, so when the monitor command hands the error
\* to its caller no controller is running or suspended, and none fetches or
\* delivers from then on.
C10_NoControllerLeftAtExit ==
    /\ []((mode = "monitor" /\ sup = "exited" /\ Started) =>
            /\ running = "none"
            /\ \A c \in Keys : pc[c] \in {"failed", "cancelled"})
    /\ [][sup = "exited" => UNCHANGED <<pc, log, emitted, delivered, file>>]_vars

\* the command has ended and a sibling of the failed controller, which had
\* fetched before, was cancelled
C10_Witness ==
    \E c \in Keys, d \in Keys :
        /\ mode = "monitor"
        /\ sup = "exited"
        /\ pc[c] = "failed"
        /\ pc[d] = "cancelled"
        /\ Len(log[d]) >= 1

(* ================= properties of sessions and controllers ============= *)

\* the token a session holds after its first i fetches: the next-token of
\* its latest successful response, or its initial token
OwnToken(c, i) ==
    LET oks == {j \in 1..i : log[c][j].kind = "ok"}
    IN IF oks = {} THEN <<c, 0>>
       ELSE log[c][CHOOSE j \in oks : \A k \in oks : k <= j].next

\* C11: poll sessions are independent. Every fetch request of a session
\* carries a token issued to that session, namely its initial token or the
\* next-token of its own latest successful response, and a step in which one
\* session gets a response, backs off or fails changes neither the token nor
\* the interval of another session.
C11_SessionsIndependent ==
    /\ [](\A c \in Keys : \A i \in 1..Len(log[c]) :
            /\ log[c][i].tok[1] = c
            /\ log[c][i].tok = OwnToken(c, i - 1))
    /\ [][\A c \in Keys : \A d \in Keys \ {c} :
            log'[c] # log[c] =>
                /\ token'[d] = token[d]
                /\ interval'[d] = interval[d]
                /\ lastSleep'[d] = lastSleep[d]]_vars

\* two sessions side by side: "a" sends its second request with its own
\* next-token while "b" holds the next-token of its own response
C11_Witness ==
    /\ mode = "monitor"
    /\ Len(log["a"]) = 2 /\ log["a"][1].kind = "ok"
    /\ log["a"][2].tok = <<"a", 1>>
    /\ Len(log["b"]) = 1 /\ log["b"][1].kind = "ok"
    /\ token["b"] = <<"b", 1>>

\* C12: an external cancellation of a controller's continuous operation takes
\* effect at the suspension point the unit is in (before its first step, in
\* the interval sleep or in the backoff sleep): from the request on the unit
\* opens no session, issues no fetch, emits no element and performs no
\* delivery, and its only step is the one that terminates it.
C12_CancellationTerminates ==
    /\ [](\A c \in Keys : cancelReq[c] => Suspended(c) \/ pc[c] = "cancelled")
    /\ [][\A c \in Keys : cancelReq[c] =>
            /\ opened'[c] = opened[c] /\ log'[c] = log[c]
            /\ emitted'[c] = emitted[c] /\ delivered'[c] = delivered[c]
            /\ file'[c] = file[c]
            /\ pc'[c] \in {pc[c], "cancelled"}]_vars

\* a unit that has emitted and delivered is cancelled in a sleep and ends
\* with CancelledError
C12_Witness ==
    \E c \in Keys :
        /\ cancelReq[c] /\ pc[c] = "cancelled"
        /\ err[c] = CancelledError
        /\ delivered[c] # <<>>
        /\ lastSleep[c] # NoSleep

\* C13: the fetch request is a suspension point: while one controller waits
\* for the response to its fetch, every other controller whose sleep has
\* elapsed can be resumed and run its own fetch and delivery.
C13_FetchIsSuspensionPoint ==
    \A c \in Keys : \A d \in Keys \ {c} :
        (/\ pc[c] = "fetching"
         /\ pc[d] \in {"sleep", "backoff"}
         /\ ~cancelReq[d]
         /\ sup # "exited"
         /\ nfetch < MaxFetches) => ENABLED Wake(d)

\* C14: the minimum poll interval of the session-open request is clamped to
\* MINIMUM_POLL_INTERVAL_SECONDS: whatever interval the caller passes, the
\* value sent to the server is never below the floor.
C14_SessionOpenClamped ==
    \A c \in Keys : \A i \in 1..Len(opened[c]) :
        opened[c][i] >= MINIMUM_POLL_INTERVAL_SECONDS

\* C14, amended: the session-open request carries the interval argument of
\* poll as it is; the commands of the CLI call poll() without an argument and
\* so send the default, MINIMUM_POLL_INTERVAL_SECONDS.
C14_SessionOpenSendsCallerInterval ==
    \A c \in Keys : \A i \in 1..Len(opened[c]) :
        /\ opened[c][i] = interval[c]
        /\ mode # "poll" => opened[c][i] = MINIMUM_POLL_INTERVAL_SECONDS

\* poll(interval=30) has opened its session with 30, below the floor
C14_Witness ==
    \E c \in Keys :
        /\ mode = "poll" /\ interval[c] < MINIMUM_POLL_INTERVAL_SECONDS
        /\ opened[c] = <<interval[c]>>
        /\ pc[c] = "poll"

\* the required fields the entry of c lacks
Missing(c) == FullEntry(c) \ entry[c]

\* the key the report names, by the order in which the fields are needed
Offending(c) ==
    LET m == Missing(c)
    IN CASE "key" \in m -> c
         [] "source" \in m -> "source"
         [] "source.backend" \in m -> "backend"
         [] "source.init" \in m \/ "source.new" \in m -> "init"
         [] "source.init.kwargs" \in m \/ "source.new.kwargs" \in m -> "kwargs"
         [] "dest" \in m -> "dest"
         [] "dest.path" \in m -> "path"
         [] OTHER -> "format"

C17_LastWriteWins ==
    \A c \in Keys : Sink = "write_text" =>
        file[c] = IF delivered[c] = <<>> THEN NoFile ELSE Last(delivered[c])

\* two deliveries of different renderings, the file holds the second
C17_Witness ==
    \E c \in Keys :
        /\ Sink = "write_text"
        /\ Len(delivered[c]) = 2
        /\ delivered[c][1] # delivered[c][2]
        /\ file[c] = delivered[c][2]

\* C18: a call of poll opens exactly one session: the session-open request
\* is issued once, before the first fetch request of the call, and never
\* again, neither after a skip, nor after a too-early backoff, nor after an
\* emission; every call starts from the initial token of its own session.
C18_OneSessionPerCall ==
    /\ [](\A c \in Keys :
            /\ Len(opened[c]) <= 1
            /\ log[c] # <<>> => Len(opened[c]) = 1 /\ log[c][1].tok = <<c, 0>>)
    /\ [][\A c \in Keys : log[c] # <<>> => opened'[c] = opened[c]]_vars

\* a skip, a too-early answer and an emission, all in the one session
C18_Witness ==
    \E c \in Keys :
        /\ Len(opened[c]) = 1 /\ Len(log[c]) = 3
        /\ log[c][1].kind = "ok" /\ log[c][1].content = EmptyBytes
        /\ TooEarlyAt(c, 2)
        /\ log[c][3].kind = "ok" /\ Len(emitted[c]) = 1

\* C19: after every successful response, on emit and on skip alike, the
\* session sleeps for exactly the NextPollIntervalInSeconds of that response
\* before it issues the next fetch; on emit the sleep begins only when the
\* consumer has taken the element and finished with it.
C19_SleepsServerIntervalAfterSuccess ==
    /\ [](\A c \in Keys :
            /\ pc[c] = "sleep" =>
                  /\ Last(log[c]).kind = "ok"
                  /\ lastSleep[c] = [num |-> Last(log[c]).nextInt, den |-> 1]
                  /\ handled[c] = Len(emitted[c])
            /\ pc[c] \in {"yielded", "do"} =>
                  /\ running = c
                  /\ handled[c] = Len(emitted[c]) - 1)
    /\ [][\A c \in Keys :
            (/\ pc'[c] = "poll" /\ pc[c] # "poll"
             /\ log[c] # <<>> /\ Last(log[c]).kind = "ok") => pc[c] = "sleep"]_vars

\* one session has slept after a skip and is sleeping again after an
\* emission that its consumer has finished with
C19_Witness ==
    \E c \in Keys :
        /\ Len(log[c]) = 2
        /\ log[c][1].kind = "ok" /\ log[c][1].content = EmptyBytes
        /\ log[c][2].kind = "ok" /\ Len(emitted[c]) = 1 /\ handled[c] = 1
        /\ pc[c] = "sleep"
        /\ lastSleep[c] = [num |-> log[c][2].nextInt, den |-> 1]
        /\ lastSleep[c].num # interval[c]

\* loads or the rendering raises for the element s of controller c
PipelineFails(c, s) ==
    \/ Loads(SrcFormat(c), s) = LoadsFailure
    \/ Render(DestFormat(c), Loads(SrcFormat(c), s)) = RenderFailure

\* C20: a decode or render failure on an update is fatal to the continuous
\* operation of the controller: when loads or the rendering fails for
\* emission k of awrite / aget, the error leaves the operation and reaches its
\* caller, emission k is the last of that controller and is not delivered,
\* and the controller issues no further fetch and performs no further delivery.
C20_PipelineFailureIsFatal ==
    /\ [](\A c \in Keys : \A k \in 1..Len(emitted[c]) :
            (mode # "poll" /\ k <= handled[c] /\ PipelineFails(c, emitted[c][k])) =>
                /\ pc[c] = "failed"
                /\ err[c] \in {LoadsError, RenderError}
                /\ k = Len(emitted[c]) /\ Len(delivered[c]) = k - 1
                /\ exc # NoExc
                /\ mode # "monitor" => sup \in {"raised", "exited"} /\ exc.error = err[c])
    /\ [][\A c \in Keys : pc[c] = "failed" =>
            /\ pc'[c] = "failed"
            /\ log'[c] = log[c] /\ emitted'[c] = emitted[c]
            /\ delivered'[c] = delivered[c] /\ file'[c] = file[c]]_vars

\* the first update was delivered, the rendering of the second one failed
C20_Witness ==
    \E c \in Keys :
        /\ pc[c] = "failed" /\ err[c] = RenderError
        /\ Len(emitted[c]) = 2 /\ handled[c] = 2
        /\ Len(delivered[c]) = 1
        /\ nfetch < MaxFetches

\* loads failed on the first update of a controller
C20_WitnessLoads ==
    \E c \in Keys :
        /\ pc[c] = "failed" /\ err[c] = LoadsError
        /\ Len(emitted[c]) = 1 /\ delivered[c] = <<>>

\* C15: name resolution over the ordered list of ids the search returns.
\* With no match the call fails with an error that names the operation and
\* the searched name, and returns no id; with exactly one match it returns
\* that id and warns of nothing; with several it returns the first id in the
\* order of the server and emits exactly one warning, which is not an error
\* and lists all the other ids.
C15_NameResolution ==
    lookup.done =>
        LET ids == lookup.ids
            o == lookup.out
        IN /\ ids = <<>> =>
                /\ o.raised = [type |-> "ValueError", operation |-> lookup.operation,
                               name |-> lookup.name]
                /\ o.id = NoId /\ o.warnings = <<>>
           /\ Len(ids) = 1 =>
                o.raised = NoRaise /\ o.id = ids[1] /\ o.warnings = <<>>
           /\ Len(ids) > 1 =>
                /\ o.raised = NoRaise /\ o.id = ids[1]
                /\ Len(o.warnings) = 1
                /\ o.warnings[1].category = "RuntimeWarning"
                /\ o.warnings[1].ignored = [i \in 1..(Len(ids) - 1) |-> ids[i + 1]]

\* three ids came back: the first is returned, one warning lists the other two
C15_Witness ==
    /\ lookup.done /\ Len(lookup.ids) = 3
    /\ lookup.out.id = lookup.ids[1]
    /\ Len(lookup.out.warnings) = 1
    /\ lookup.out.warnings[1].ignored = <<lookup.ids[2], lookup.ids[3]>>

\* nothing came back: the call raised and returned no id
C15_WitnessNotFound ==
    /\ lookup.done /\ lookup.ids = <<>>
    /\ lookup.out.raised.type = "ValueError" /\ lookup.out.id = NoId

\* the continuous write of c has ended in loads or in the rendering
PipelineFailed(c) == pc[c] = "failed" /\ err[c] \in {LoadsError, RenderError}

\* C21: when loads or the rendering fails for an update in write / awrite,
\* the destination file is left as it was: the failing step changes neither
\* the file nor the deliveries, and afterwards the file still holds the last
\* successful delivery, or does not exist if there was none.
C21_FailureLeavesFileUnchanged ==
    /\ [](\A c \in Keys : (Sink = "write_text" /\ PipelineFailed(c)) =>
            /\ file[c] = IF delivered[c] = <<>> THEN NoFile ELSE Last(delivered[c])
            /\ Len(delivered[c]) = Len(emitted[c]) - 1)
    /\ [][\A c \in Keys : (Sink = "write_text" /\ ~PipelineFailed(c) /\ PipelineFailed(c)') =>
            file'[c] = file[c] /\ delivered'[c] = delivered[c]]_vars

\* a first update is in the file, the rendering of the second one has failed
C21_Witness ==
    \E c \in Keys :
        /\ Sink = "write_text"
        /\ PipelineFailed(c) /\ err[c] = RenderError
        /\ Len(emitted[c]) = 2 /\ Len(delivered[c]) = 1
        /\ file[c] = delivered[c][1] /\ file[c] # NoFile

\* loads has failed on the first update: there is no file
C21_WitnessNoFile ==
    \E c \in Keys :
        /\ Sink = "write_text"
        /\ PipelineFailed(c) /\ err[c] = LoadsError
        /\ delivered[c] = <<>> /\ file[c] = NoFile

\* the construction of some controller has ended the command
SetupFailed == sup = "exited" /\ \E c \in Keys : pc[c] = "unbuilt"

\* C22: monitor starts watching only after setup has succeeded for every
\* configured object: all controllers are constructed before the first
\* parent directory is made, and all directories are made before any poll
\* session is opened; if the construction of one controller fails, no
\* directory is made, no session opened, nothing fetched and no destination
\* file written for any object.
C22_MonitorSetupBeforeWatch ==
    mode = "monitor" =>
        /\ dirs # {} => \A d \in Keys : pc[d] # "unbuilt"
        /\ (\E c \in Keys : opened[c] # <<>>) =>
              \A d \in Keys : pc[d] \notin {"unbuilt", "built"} /\ d \in dirs
        /\ SetupFailed =>
              /\ dirs = {}
              /\ \A d \in Keys :
                    /\ opened[d] = <<>> /\ log[d] = <<>>
                    /\ delivered[d] = <<>> /\ file[d] = NoFile

\* both controllers are built and both directories made when the first
\* session is opened, the other controller not yet having taken a step
C22_Witness ==
    /\ mode = "monitor"
    /\ dirs = Keys
    /\ \E c \in Keys : \E d \in Keys \ {c} :
          /\ Len(opened[c]) = 1 /\ pc[c] = "poll"
          /\ opened[d] = <<>> /\ pc[d] = "init"

\* "a" was built, the construction of "b" failed: nothing was started
C22_WitnessFailed ==
    /\ mode = "monitor"
    /\ SetupFailed
    /\ pc["a"] = "built" /\ pc["b"] = "unbuilt"
    /\ dirs = {} /\ opened["a"] = <<>> /\ file["a"] = NoFile

====
